---- MODULE Spec2Model ----
(***************************************************************************)
(* A model of convert_xcs_to_svg.py: the colour, fill, stroke and          *)
(* transform helpers, the five per-kind renderers, and                     *)
(* convert_canvas_to_svg run twice over one canvas as main() does for      *)
(* canvas index 1.                                                         *)
(*                                                                         *)
(* JSON values are tagged records.  A dictionary key that is not present   *)
(* is the value Absent; JSON null is Null.  Finite numbers are kept in     *)
(* eighths (Num(8) is 1, Num(4) is 0.5) so that w * sx / 2 + 1 is exact    *)
(* for inputs that are multiples of one half.  Angles are whole multiples  *)
(* of pi/4 radians.  Strings are sequences of one-character strings.       *)
(* A Python exception is the value Raise.                                  *)
(***************************************************************************)
EXTENDS Integers, Sequences, FiniteSets, TLC

VARIABLES
    color_val, hex, cpc,            \* int_color_to_hex: argument, result, position
    shape, el, spc,                 \* one renderer call: argument, result, position
    displays, canvas0, pc, pass, i, \* convert_canvas_to_svg: canvas, position
    box, sorted_displays, elements, \*   its locals
    result, svg1                    \*   its return value; the first call's

vars == <<color_val, hex, cpc, shape, el, spc, displays, canvas0, pc, pass, i,
          box, sorted_displays, elements, result, svg1>>

colorVars == <<color_val, hex, cpc>>
shapeVars == <<shape, el, spc>>
canvasVars == <<displays, canvas0, pc, pass, i, box, sorted_displays,
                elements, result, svg1>>

-----------------------------------------------------------------------------
(* Values *)

Absent == [k |-> "absent"]
Null == [k |-> "null"]
NaN == [k |-> "nan"]
Infinity == [k |-> "inf"]
Raise == [k |-> "raise"]
Num(e) == [k |-> "num", e |-> e]
Whole(n) == Num(8 * n)
Rad(q) == [k |-> "rad", q |-> q]
Bool(b) == [k |-> "bool", b |-> b]
Str(s) == [k |-> "str", s |-> s]
List(n) == [k |-> "list", len |-> n]

IsStr(v) == v.k = "str"
IsRaise(v) == v.k = "raise"

\* dict.get(key, default)
Get(v, default) == IF v = Absent THEN default ELSE v

\* Python truthiness, as `not v` and `if v:` use it
Truthy(v) ==
    CASE v.k = "bool" -> v.b
      [] v.k = "num" -> v.e # 0
      [] v.k = "rad" -> v.q # 0
      [] v.k = "str" -> v.s # <<>>
      [] v.k = "list" -> v.len # 0
      [] v.k = "null" -> FALSE
      [] v.k = "absent" -> FALSE
      [] OTHER -> TRUE

Abs(n) == IF n < 0 THEN -n ELSE n

-----------------------------------------------------------------------------
(* int_color_to_hex *)

Digits == <<"0", "1", "2", "3", "4", "5", "6", "7", "8", "9">>
HexDigits == Digits \o <<"a", "b", "c", "d", "e", "f">>

DigitVal(c) == CHOOSE d \in 0..15 : HexDigits[d + 1] = c
IsDigit(c) == \E d \in 1..10 : Digits[d] = c

RECURSIVE DigitsValue(_, _)
DigitsValue(s, acc) ==
    IF s = <<>> THEN acc ELSE DigitsValue(Tail(s), 10 * acc + DigitVal(Head(s)))

\* int(str): an optional sign and one or more decimal digits.  The inputs
\* hold no white space and no underscores, which int() would also accept.
IntParses(s) ==
    LET body == IF s # <<>> /\ Head(s) \in {"+", "-"} THEN Tail(s) ELSE s
    IN  body # <<>> /\ \A n \in 1..Len(body) : IsDigit(body[n])

ParseInt(s) ==
    IF Head(s) = "-" THEN -DigitsValue(Tail(s), 0)
    ELSE IF Head(s) = "+" THEN DigitsValue(Tail(s), 0)
    ELSE DigitsValue(s, 0)

\* int(float): truncation toward zero
Trunc(e) == IF e >= 0 THEN e \div 8 ELSE -((-e) \div 8)

\* f'{v:02x}' for v in 0..255
Hex02(v) == <<HexDigits[(v \div 16) + 1], HexDigits[(v % 16) + 1]>>

\* a shift by 8 where the code shifts by 16
RedShiftedByEight(c) == (c \div 256) % 256

Red(c) == (c \div 65536) % 256

FormatRGB(c) ==
    Str(<<"#">> \o Hex02(Red(c)) \o Hex02((c \div 256) % 256) \o Hex02(c % 256))

IntToHex(v) ==
    CASE v.k = "num" -> FormatRGB(Trunc(v.e))
      [] v.k = "bool" -> FormatRGB(IF v.b THEN 1 ELSE 0)
      [] v.k = "nan" -> Raise
      [] v.k = "inf" -> Raise
      [] OTHER -> Str(<<"#", "0", "0", "0", "0", "0", "0">>)

int_color_to_hex(v) ==
    IF IsStr(v)
    THEN IF v.s # <<>> /\ Head(v.s) = "#" THEN v
         ELSE IF IntParses(v.s) THEN IntToHex(Whole(ParseInt(v.s)))
         ELSE v
    ELSE IntToHex(v)

-----------------------------------------------------------------------------
(* Colour inputs *)

ByteSamples == {0, 1, 9, 10, 15, 16, 17, 128, 255}
ColorInts == {r * 65536 + g * 256 + b : r, g, b \in ByteSamples}

RECURSIVE DecStr(_)
DecStr(n) ==
    IF n < 10 THEN <<Digits[n + 1]>> ELSE DecStr(n \div 10) \o <<Digits[(n % 10) + 1]>>

BadStrings ==
    {<<>>, <<"r", "e", "d">>, <<"1", "2", ".", "5">>, <<"0", "x", "f", "f">>,
     <<"-">>, <<"1", "e", "3">>}

ColorInputs ==
    {Whole(c) : c \in ColorInts}
    \cup {Str(DecStr(c)) : c \in ColorInts}
    \cup {Str(s) : s \in BadStrings}
    \cup {Str(<<"#", "f", "8", "0">>), Str(<<"#">>), Str(<<"-", "1">>),
          Str(<<"+", "2", "5", "5">>), Whole(-1), Whole(16777216), Num(100),
          Num(-4), Bool(TRUE), Bool(FALSE), Null, NaN, Infinity, List(0),
          List(3)}

-----------------------------------------------------------------------------
(* Displays *)

Lit(s) == Str(<<s>>)
Empty == Str(<<>>)
Black == Str(<<"#", "0", "0", "0", "0", "0", "0">>)
Skip == [k |-> "skip"]

IsDict(v) == v.k = "dict"

Fill(visible, color, alpha) ==
    [k |-> "dict", visible |-> visible, color |-> color, alpha |-> alpha]
Stroke(visible, color, width, alpha, cap, join) ==
    [k |-> "dict", visible |-> visible, color |-> color, width |-> width,
     alpha |-> alpha, cap |-> cap, join |-> join]
Point(x, y) == [k |-> "dict", x |-> x, y |-> y]
Style(fontSize, fontFamily) ==
    [k |-> "dict", fontSize |-> fontSize, fontFamily |-> fontFamily]

\* the literal {} given as a default to display.get
NoFill == Fill(Absent, Absent, Absent)
NoStroke == Stroke(Absent, Absent, Absent, Absent, Absent, Absent)
NoPoint == Point(Absent, Absent)
NoStyle == Style(Absent, Absent)

\* a Display with no key at all
Bare ==
    [type |-> Absent, visible |-> Absent, x |-> Absent, y |-> Absent,
     angle |-> Absent, scale |-> Absent, width |-> Absent, height |-> Absent,
     zOrder |-> Absent, fill |-> Absent, stroke |-> Absent, dPath |-> Absent,
     fillRule |-> Absent, radius |-> Absent, endPoint |-> Absent,
     base64 |-> Absent, text |-> Absent, style |-> Absent]

\* v < 1 and v > 0 raise TypeError on None and on str
Ordered(v) == v.k \in {"num", "bool", "nan", "inf"}
AsEighths(v) == IF v.k = "bool" THEN (IF v.b THEN 8 ELSE 0) ELSE v.e
LessThanOne(v) == v.k \in {"num", "bool"} /\ AsEighths(v) < 8
Positive(v) == v.k = "inf" \/ (v.k \in {"num", "bool"} /\ AsEighths(v) > 0)

\* -w/2, abs(v) and w * sx / 2 raise TypeError on None and on str
Arith(v) == v.k \in {"num", "bool"}
NegHalf(v) == Num(-(AsEighths(v) \div 2))

-----------------------------------------------------------------------------
(* get_fill_color, get_stroke_props, build_transform *)

get_fill_color(display) ==
    LET fill == Get(display.fill, NoFill)
    IN  IF ~IsDict(fill) THEN Raise
        ELSE IF ~Truthy(Get(fill.visible, Bool(FALSE))) THEN Lit("none")
        ELSE LET hex_color == int_color_to_hex(Get(fill.color, Whole(0)))
             IN  IF ~Ordered(Get(fill.alpha, Whole(1))) THEN Raise
                 ELSE hex_color

StrokeColor(stroke) == int_color_to_hex(Get(stroke.color, Whole(0)))

get_stroke_props(display) ==
    LET stroke == Get(display.stroke, NoStroke)
    IN  IF ~IsDict(stroke) THEN Raise
        ELSE IF ~Truthy(Get(stroke.visible, Bool(FALSE))) THEN Null
        ELSE IF IsRaise(StrokeColor(stroke)) THEN Raise
        ELSE Stroke(Absent, StrokeColor(stroke), Get(stroke.width, Whole(1)),
                    Get(stroke.alpha, Whole(1)), Get(stroke.cap, Lit("butt")),
                    Get(stroke.join, Lit("miter")))

\* angle * 180 / math.pi: 45 * q for an angle of q * pi/4, and left as the
\* product for a number that is no such multiple
Degrees(angle) ==
    IF angle.k = "rad" THEN Whole(45 * angle.q)
    ELSE [k |-> "degrees", radians |-> angle]

\* angle != 0 and sx != 1, where False == 0 and True == 1
NonZero(angle) == angle \notin {Whole(0), Rad(0), Bool(FALSE)}
IsOne(v) == v \in {Whole(1), Bool(TRUE)}

Translate(x, y) == [op |-> "translate", a |-> x, b |-> y]
Rotate(deg) == [op |-> "rotate", a |-> deg]
Scale(sx, sy) == [op |-> "scale", a |-> sx, b |-> sy]
Transform(terms) == [k |-> "transform", terms |-> terms]

\* the value line 69 computes and line 71 overwrites
RotateTermSmallAngle(angle) ==
    <<Rotate(IF angle.k = "rad" /\ Abs(angle.q) <= 8 THEN angle ELSE Degrees(angle))>>

RotateTerm(angle) == <<Rotate(Degrees(angle))>>

TransformTerms(x, y, angle, sx, sy) ==
    Transform(<<Translate(x, y)>>
              \o (IF NonZero(angle) THEN RotateTerm(angle) ELSE <<>>)
              \o (IF ~IsOne(sx) \/ ~IsOne(sy) THEN <<Scale(sx, sy)>> ELSE <<>>))

build_transform(display) ==
    LET angle == Get(display.angle, Whole(0))
        scale == Get(display.scale, Point(Whole(1), Whole(1)))
    IN  IF ~IsDict(scale) THEN Raise
        ELSE IF NonZero(angle) /\ angle.k \notin {"rad", "num", "bool", "nan", "inf"} THEN Raise
        ELSE TransformTerms(Get(display.x, Whole(0)), Get(display.y, Whole(0)),
                            angle, Get(scale.x, Whole(1)), Get(scale.y, Whole(1)))

-----------------------------------------------------------------------------
(* The renderers *)

Element(tag, transform, attrs, content) ==
    [k |-> "el", tag |-> tag, transform |-> transform, attrs |-> attrs,
     content |-> content]

Attr(name, value) == [name |-> name, value |-> value]

StrokeAttrs(props) ==
    IF props = Null THEN <<Attr("stroke", Lit("none"))>>
    ELSE <<Attr("stroke", props.color), Attr("stroke-width", props.width)>>

PathStrokeAttrs(props) ==
    IF props = Null THEN <<Attr("stroke", Lit("none"))>>
    ELSE <<Attr("stroke", props.color), Attr("stroke-width", props.width),
           Attr("stroke-linecap", props.cap), Attr("stroke-linejoin", props.join)>>
         \o (IF LessThanOne(props.alpha)
             THEN <<Attr("stroke-opacity", props.alpha)>> ELSE <<>>)

FillOpacityAttrs(display) ==
    LET alpha == Get(Get(display.fill, NoFill).alpha, Whole(1))
    IN  IF LessThanOne(alpha) THEN <<Attr("fill-opacity", alpha)>> ELSE <<>>

render_path(display) ==
    LET dpath == Get(display.dPath, Empty)
        transform == build_transform(display)
        fill == get_fill_color(display)
        stroke_props == get_stroke_props(display)
        fill_rule == Get(display.fillRule, Lit("nonzero"))
    IN  IF ~Truthy(dpath) THEN Empty
        ELSE IF transform = Raise \/ fill = Raise \/ stroke_props = Raise THEN Raise
        ELSE IF stroke_props # Null /\ ~Ordered(stroke_props.alpha) THEN Raise
        ELSE IF ~Ordered(Get(Get(display.fill, NoFill).alpha, Whole(1))) THEN Raise
        ELSE Element("path", transform,
                 <<Attr("d", dpath), Attr("fill", fill)>>
                 \o (IF Truthy(fill_rule) THEN <<Attr("fill-rule", fill_rule)>> ELSE <<>>)
                 \o PathStrokeAttrs(stroke_props)
                 \o FillOpacityAttrs(display),
                 Empty)

render_rect(display) ==
    LET w == Get(display.width, Whole(0))
        h == Get(display.height, Whole(0))
        r == Get(display.radius, Whole(0))
        transform == build_transform(display)
        fill == get_fill_color(display)
        stroke_props == get_stroke_props(display)
    IN  IF transform = Raise \/ fill = Raise \/ stroke_props = Raise THEN Raise
        ELSE IF ~Arith(w) \/ ~Arith(h) \/ ~Ordered(r) THEN Raise
        ELSE Element("rect", transform,
                 <<Attr("x", NegHalf(w)), Attr("y", NegHalf(h)),
                   Attr("width", w), Attr("height", h)>>
                 \o (IF Positive(r) THEN <<Attr("rx", r), Attr("ry", r)>> ELSE <<>>)
                 \o <<Attr("fill", fill)>>
                 \o StrokeAttrs(stroke_props),
                 Empty)

DefaultStroke ==
    Stroke(Absent, Black, Whole(1), Whole(1), Lit("butt"), Lit("miter"))

\* render_line without its default
LineStrokeAsGiven(stroke_props) == stroke_props

LineStroke(stroke_props) ==
    IF stroke_props = Null THEN DefaultStroke ELSE stroke_props

render_line(display) ==
    LET endpoint == Get(display.endPoint, NoPoint)
        transform == build_transform(display)
        stroke_props == get_stroke_props(display)
    IN  IF ~IsDict(endpoint) \/ transform = Raise \/ stroke_props = Raise THEN Raise
        ELSE Element("line", transform,
                 <<Attr("x1", Whole(0)), Attr("y1", Whole(0)),
                   Attr("x2", Get(endpoint.x, Whole(0))),
                   Attr("y2", Get(endpoint.y, Whole(0)))>>
                 \o StrokeAttrs(LineStroke(stroke_props)),
                 Empty)

render_bitmap(display) ==
    LET b64 == Get(display.base64, Empty)
        w == Get(display.width, Whole(0))
        h == Get(display.height, Whole(0))
        transform == build_transform(display)
    IN  IF ~Truthy(b64) THEN Empty
        ELSE IF transform = Raise \/ ~Arith(w) \/ ~Arith(h) THEN Raise
        ELSE Element("image", transform,
                 <<Attr("x", NegHalf(w)), Attr("y", NegHalf(h)),
                   Attr("width", w), Attr("height", h), Attr("href", b64)>>,
                 Empty)

render_text(display) ==
    LET transform == build_transform(display)
        fill == get_fill_color(display)
        style == Get(display.style, NoStyle)
    IN  IF transform = Raise \/ fill = Raise \/ ~IsDict(style) THEN Raise
        ELSE Element("text", transform,
                 <<Attr("font-size", Get(style.fontSize, Whole(12))),
                   Attr("font-family", Get(style.fontFamily, Lit("sans-serif"))),
                   Attr("fill", fill)>>,
                 Get(display.text, Empty))

\* the dispatch on d.get('type', '') inside the try block; Skip is `continue`
RenderDisplay(d) ==
    LET dtype == Get(d.type, Empty)
    IN  CASE dtype = Lit("PATH") -> render_path(d)
          [] dtype = Lit("RECT") -> render_rect(d)
          [] dtype = Lit("LINE") -> render_line(d)
          [] dtype = Lit("BITMAP") -> render_bitmap(d)
          [] dtype = Lit("TEXT") -> render_text(d)
          [] OTHER -> Skip

-----------------------------------------------------------------------------
(* Display inputs *)

Kinds == {Lit("PATH"), Lit("RECT"), Lit("LINE"), Lit("BITMAP"), Lit("TEXT")}
Orange == Whole(16421416)

Geometries ==
    {[x |-> g[1], y |-> IF g[1] = Absent THEN Absent ELSE Whole(-3),
      angle |-> g[2], scale |-> g[3]] :
        g \in {Absent, Whole(5)}
              \X {Absent, Whole(0), Rad(2), Rad(-1), Null}
              \X {Absent, Point(Whole(1), Whole(1)), Point(Whole(2), Whole(1)),
                  Point(Absent, Num(-4)), Null}}

Fills ==
    {Absent, Fill(Bool(FALSE), Orange, Num(4)), Fill(Bool(TRUE), Orange, Absent),
     Fill(Bool(TRUE), Str(<<"#", "f", "8", "0">>), Num(4)),
     Fill(Bool(TRUE), Absent, Null), Null}

Strokes ==
    {Absent, Stroke(Bool(FALSE), Orange, Whole(3), Absent, Absent, Absent),
     Stroke(Bool(TRUE), Absent, Absent, Absent, Absent, Absent),
     Stroke(Bool(TRUE), Orange, Whole(3), Num(4), Lit("round"), Lit("bevel")),
     Stroke(Bool(TRUE), NaN, Whole(3), Absent, Absent, Absent), Null}

Payloads ==
    {[dPath |-> Absent, fillRule |-> Absent, width |-> Absent, height |-> Absent,
      radius |-> Absent, endPoint |-> Absent, base64 |-> Absent, text |-> Absent,
      style |-> Absent],
     [dPath |-> Lit("M0 0 L3 4"), fillRule |-> Lit("evenodd"), width |-> Whole(10),
      height |-> Whole(4), radius |-> Whole(2), endPoint |-> Point(Whole(3), Whole(4)),
      base64 |-> Lit("data:image/png;base64,AAAA"), text |-> Lit("hi"),
      style |-> Style(Whole(20), Absent)],
     [dPath |-> Empty, fillRule |-> Empty, width |-> Whole(0), height |-> Whole(0),
      radius |-> Whole(0), endPoint |-> NoPoint, base64 |-> Empty, text |-> Empty,
      style |-> NoStyle],
     [dPath |-> Lit("M1 1"), fillRule |-> Absent, width |-> Lit("wide"),
      height |-> Whole(4), radius |-> Null, endPoint |-> Null,
      base64 |-> Lit("data:,"), text |-> Lit("hi"), style |-> Null]}

MakeShape(type, g, fill, stroke, p) ==
    [Bare EXCEPT !.type = type, !.x = g.x, !.y = g.y, !.angle = g.angle,
                 !.scale = g.scale, !.fill = fill, !.stroke = stroke,
                 !.dPath = p.dPath, !.fillRule = p.fillRule, !.width = p.width,
                 !.height = p.height, !.radius = p.radius, !.endPoint = p.endPoint,
                 !.base64 = p.base64, !.text = p.text, !.style = p.style]

ShapeInputs ==
    {MakeShape(t, g, f, st, p) :
        t \in Kinds \cup {Lit("CIRCLE"), Absent}, g \in Geometries, f \in Fills,
        st \in Strokes, p \in Payloads}

-----------------------------------------------------------------------------
(* int_color_to_hex and the renderers called on their own.  Each            *)
(* specification leaves the variables of the others at rest.                *)

ColorIdle == color_val = Absent /\ hex = Absent /\ cpc = "idle"
ShapeIdle == shape = Bare /\ el = Absent /\ spc = "idle"
CanvasIdle ==
    /\ displays = <<>> /\ canvas0 = <<>> /\ pc = "idle" /\ pass = 0 /\ i = 0
    /\ box = Absent /\ sorted_displays = <<>> /\ elements = <<>>
    /\ result = Absent /\ svg1 = Absent

InitColor ==
    /\ color_val \in ColorInputs /\ hex = Absent /\ cpc = "call"
    /\ ShapeIdle /\ CanvasIdle

ResolveColor ==
    /\ cpc = "call"
    /\ hex' = int_color_to_hex(color_val)
    /\ cpc' = "done"
    /\ UNCHANGED <<color_val, shapeVars, canvasVars>>

SpecColor == InitColor /\ [][ResolveColor]_vars

InitShape ==
    /\ shape \in ShapeInputs /\ el = Absent /\ spc = "call"
    /\ ColorIdle /\ CanvasIdle

RenderShape ==
    /\ spc = "call"
    /\ el' = RenderDisplay(shape)
    /\ spc' = "done"
    /\ UNCHANGED <<shape, colorVars, canvasVars>>

SpecShape == InitShape /\ [][RenderShape]_vars

-----------------------------------------------------------------------------
(* convert_canvas_to_svg *)

MaxDisplays == 3
padding == 2

PosInf == Infinity
NegInf == [k |-> "-inf"]

\* min(a, b) and max(a, b) over float('inf'), float('-inf') and finite numbers
PyMin(a, b) == IF a = PosInf \/ b.e < a.e THEN b ELSE a
PyMax(a, b) == IF a = NegInf \/ b.e > a.e THEN b ELSE a

IsVisible(d) == Truthy(Get(d.visible, Bool(TRUE)))

\* abs(d.get('scale', {}).get(axis, 1)), w * sx / 2 + 1 and x - half_w raise
\* on a scale that is no dictionary and on operands that are no numbers
ScaleOf(d) == Get(d.scale, NoPoint)

BoundsRaise(d) ==
    \/ ~IsDict(ScaleOf(d))
    \/ \E v \in {Get(d.x, Whole(0)), Get(d.y, Whole(0)), Get(d.width, Whole(0)),
                 Get(d.height, Whole(0)), Get(ScaleOf(d).x, Whole(1)),
                 Get(ScaleOf(d).y, Whole(1))} : ~Arith(v)

\* the scale factor taken without abs()
HalfExtentSigned(size, factor) ==
    ((AsEighths(size) * AsEighths(factor)) \div 16) + 8

\* w * sx / 2 + 1, in eighths
HalfExtent(size, factor) ==
    ((AsEighths(size) * Abs(AsEighths(factor))) \div 16) + 8

half_w(d) == HalfExtent(Get(d.width, Whole(0)), Get(ScaleOf(d).x, Whole(1)))
half_h(d) == HalfExtent(Get(d.height, Whole(0)), Get(ScaleOf(d).y, Whole(1)))

Accumulate(b, d) ==
    LET x == AsEighths(Get(d.x, Whole(0)))
        y == AsEighths(Get(d.y, Whole(0)))
    IN  [min_x |-> PyMin(b.min_x, Num(x - half_w(d))),
         min_y |-> PyMin(b.min_y, Num(y - half_h(d))),
         max_x |-> PyMax(b.max_x, Num(x + half_w(d))),
         max_y |-> PyMax(b.max_y, Num(y + half_h(d)))]

EmptyBox == [min_x |-> PosInf, min_y |-> PosInf, max_x |-> NegInf, max_y |-> NegInf]

Padded(b) ==
    [min_x |-> Num(b.min_x.e - 8 * padding), min_y |-> Num(b.min_y.e - 8 * padding),
     max_x |-> Num(b.max_x.e + 8 * padding), max_y |-> Num(b.max_y.e + 8 * padding)]

\* sorted(displays, key=lambda d: d.get('zOrder', 0)): a stable sort.  With two
\* or more keys every key is compared at least once, and a comparison with a
\* key that is no number raises TypeError.
Key(d) == Get(d.zOrder, Whole(0))

SortRaises(ds) == Len(ds) >= 2 /\ \E n \in 1..Len(ds) : ~Arith(Key(ds[n]))

Before(a, b) == AsEighths(Key(a)) < AsEighths(Key(b))

\* an insertion that puts a Display before the Displays of equal key
RECURSIVE InsertBeforeEqual(_, _)
InsertBeforeEqual(ds, d) ==
    IF ds = <<>> THEN <<d>>
    ELSE IF ~Before(ds[Len(ds)], d)
    THEN InsertBeforeEqual(SubSeq(ds, 1, Len(ds) - 1), d) \o <<ds[Len(ds)]>>
    ELSE ds \o <<d>>

RECURSIVE Insert(_, _)
Insert(ds, d) ==
    IF ds = <<>> THEN <<d>>
    ELSE IF Before(d, ds[Len(ds)]) THEN Insert(SubSeq(ds, 1, Len(ds) - 1), d) \o <<ds[Len(ds)]>>
    ELSE ds \o <<d>>

RECURSIVE Sorted(_)
Sorted(ds) ==
    IF ds = <<>> THEN <<>> ELSE Insert(Sorted(SubSeq(ds, 1, Len(ds) - 1)), ds[Len(ds)])

\* a loop body that draws a Display in the frame of the one before it
RenderedInPreviousFrame(ds, n) ==
    RenderDisplay(IF n > 1 THEN [ds[n] EXCEPT !.x = ds[n - 1].x] ELSE ds[n])

\* the element the loop body computes for sorted_displays[n]
Rendered(ds, n) == RenderDisplay(ds[n])

Svg(b, els) ==
    [k |-> "svg",
     viewBox |-> <<b.min_x, b.min_y, Num(b.max_x.e - b.min_x.e), Num(b.max_y.e - b.min_y.e)>>,
     elements |-> els]

-----------------------------------------------------------------------------
(* Canvas inputs *)

Shape(type, x, w, h) ==
    [Bare EXCEPT !.type = Lit(type), !.x = Whole(x), !.width = Whole(w),
                 !.height = Whole(h)]

CanvasDisplays ==
    {Shape("RECT", 0, 10, 4),
     [Shape("PATH", 5, 2, 2) EXCEPT !.dPath = Lit("M0 0 L3 4"), !.zOrder = Whole(1),
          !.fill = Fill(Bool(TRUE), Orange, Num(4)), !.visible = Bool(TRUE)],
     [Shape("LINE", -3, 4, 2) EXCEPT !.zOrder = Whole(5), !.y = Whole(6),
          !.scale = Point(Whole(-2), Whole(1)), !.height = Absent],
     [Shape("TEXT", 100, 50, 8) EXCEPT !.visible = Bool(FALSE), !.text = Lit("hi")],
     [Shape("BITMAP", 20, 6, 6) EXCEPT !.base64 = Empty, !.zOrder = Whole(1)],
     [Shape("BITMAP", 1, 3, 5) EXCEPT !.base64 = Lit("data:,"), !.zOrder = Whole(1),
          !.scale = Point(Num(4), Absent), !.angle = Rad(2)],
     Shape("CIRCLE", -20, 2, 2),
     [Shape("PATH", 7, 1, 1) EXCEPT !.dPath = Empty, !.zOrder = Whole(-2)],
     [Shape("PATH", 2, 1, 1) EXCEPT !.dPath = Lit("M1 1"), !.width = Lit("wide")],
     [Shape("RECT", 3, 2, 2) EXCEPT !.radius = Null, !.zOrder = Whole(1)],
     [Shape("TEXT", 4, 2, 2) EXCEPT !.fill = Null, !.zOrder = Whole(5)],
     [Shape("LINE", 8, 2, 2) EXCEPT !.zOrder = Null],
     [Shape("RECT", 9, 2, 2) EXCEPT !.scale = Null],
     [Shape("RECT", 30, 2, 2) EXCEPT !.visible = Bool(FALSE), !.height = Null]}

RECURSIVE SeqsUpTo(_, _)
SeqsUpTo(S, n) ==
    IF n = 0 THEN {<<>>}
    ELSE LET shorter == SeqsUpTo(S, n - 1)
         IN  shorter \cup {Append(q, d) : q \in shorter, d \in S}

Canvases == SeqsUpTo(CanvasDisplays, MaxDisplays)

-----------------------------------------------------------------------------
(* main: convert_canvas_to_svg(canvas1, 1) in the loop, and once more for   *)
(* the main output.  An exception leaves main.                              *)

Init ==
    /\ displays \in Canvases /\ canvas0 = displays
    /\ pc = "start" /\ pass = 1 /\ i = 0
    /\ box = EmptyBox /\ sorted_displays = <<>> /\ elements = <<>>
    /\ result = Absent /\ svg1 = Absent
    /\ ColorIdle /\ ShapeIdle

Others == <<colorVars, shapeVars, canvas0, svg1, pass>>

\* lines 188-196
Start ==
    /\ pc = "start"
    /\ IF displays = <<>>
       THEN pc' = "returned" /\ result' = Null /\ i' = 0
       ELSE pc' = "bounds" /\ result' = Absent /\ i' = 1
    /\ box' = EmptyBox /\ sorted_displays' = <<>> /\ elements' = <<>>
    /\ UNCHANGED <<displays, Others>>

\* lines 198-214, one iteration
Bounds ==
    /\ pc = "bounds" /\ i <= Len(displays)
    /\ IF ~IsVisible(displays[i])
       THEN i' = i + 1 /\ UNCHANGED <<pc, box, result>>
       ELSE IF BoundsRaise(displays[i])
       THEN pc' = "raised" /\ result' = Raise /\ UNCHANGED <<i, box>>
       ELSE i' = i + 1 /\ box' = Accumulate(box, displays[i]) /\ UNCHANGED <<pc, result>>
    /\ UNCHANGED <<displays, sorted_displays, elements, Others>>

\* lines 216-226
Pad ==
    /\ pc = "bounds" /\ i > Len(displays)
    /\ IF box.min_x = PosInf
       THEN pc' = "returned" /\ result' = Null /\ box' = box
       ELSE pc' = "sort" /\ result' = result /\ box' = Padded(box)
    /\ UNCHANGED <<displays, i, sorted_displays, elements, Others>>

SortedCopy(ds) == <<ds, Sorted(ds)>>

\* line 229
Sort ==
    /\ pc = "sort"
    /\ IF SortRaises(displays)
       THEN pc' = "raised" /\ result' = Raise /\ UNCHANGED <<displays, sorted_displays, i>>
       ELSE /\ displays' = SortedCopy(displays)[1]
            /\ sorted_displays' = SortedCopy(displays)[2]
            /\ pc' = "render" /\ i' = 1 /\ result' = result
    /\ UNCHANGED <<box, elements, Others>>

\* lines 232-253, one iteration
Render ==
    /\ pc = "render" /\ i <= Len(sorted_displays)
    /\ i' = i + 1
    /\ IF IsVisible(sorted_displays[i]) /\ Rendered(sorted_displays, i).k = "el"
       THEN elements' = Append(elements, Rendered(sorted_displays, i))
       ELSE elements' = elements
    /\ UNCHANGED <<displays, pc, box, sorted_displays, result, Others>>

\* lines 255-271
Finish ==
    /\ pc = "render" /\ i > Len(sorted_displays)
    /\ pc' = "returned"
    /\ result' = IF elements = <<>> THEN Null ELSE Svg(box, elements)
    /\ UNCHANGED <<displays, i, box, sorted_displays, elements, Others>>

\* lines 287 and 297
Again ==
    /\ pc = "returned" /\ pass = 1
    /\ svg1' = result /\ pass' = 2 /\ pc' = "start"
    /\ UNCHANGED <<displays, canvas0, i, box, sorted_displays, elements, result,
                   colorVars, shapeVars>>

Done ==
    /\ pc = "returned" /\ pass = 2
    /\ pc' = "done"
    /\ UNCHANGED <<displays, canvas0, pass, i, box, sorted_displays, elements,
                   result, svg1, colorVars, shapeVars>>

Next == Start \/ Bounds \/ Pad \/ Sort \/ Render \/ Finish \/ Again \/ Done

Spec == Init /\ [][Next]_vars

-----------------------------------------------------------------------------
(* Displays as section 3 of the specification types them: every field is    *)
(* missing or of its declared type.                                         *)

NumberOrAbsent(v) == v = Absent \/ v.k = "num"
ColorOrAbsent(v) == v.k \in {"absent", "num", "str"}

WellFormed(d) ==
    /\ \A v \in {d.x, d.y, d.width, d.height, d.radius, d.zOrder} : NumberOrAbsent(v)
    /\ d.angle = Absent \/ d.angle = Whole(0) \/ d.angle.k = "rad"
    /\ d.scale = Absent
       \/ (IsDict(d.scale) /\ NumberOrAbsent(d.scale.x) /\ NumberOrAbsent(d.scale.y))
    /\ d.fill = Absent
       \/ (IsDict(d.fill) /\ NumberOrAbsent(d.fill.alpha) /\ ColorOrAbsent(d.fill.color))
    /\ d.stroke = Absent
       \/ (IsDict(d.stroke) /\ NumberOrAbsent(d.stroke.alpha)
           /\ ColorOrAbsent(d.stroke.color))
    /\ d.endPoint = Absent \/ IsDict(d.endPoint)
    /\ d.style = Absent \/ IsDict(d.style)

HasAttr(e, name, value) == \E n \in 1..Len(e.attrs) : e.attrs[n] = Attr(name, value)

-----------------------------------------------------------------------------
(* C4 *)

RECURSIVE HexValue(_, _)
HexValue(s, acc) ==
    IF s = <<>> THEN acc ELSE HexValue(Tail(s), 16 * acc + DigitVal(Head(s)))

IsHexDigit(c) == \E d \in 1..16 : HexDigits[d] = c

InRange(c) == 0 <= c /\ c <= 16777215

\* the colour an input denotes, when it is an integer of the range or the
\* decimal string of one
Denotes(v, c) ==
    \/ v = Whole(c)
    \/ (IsStr(v) /\ v.s = DecStr(c))

\* C4: for an integer colour c in [0, 0xFFFFFF], given as an integer or as its
\* decimal string, int_color_to_hex returns '#' followed by exactly six hex
\* digits, and reading those digits in base 16 gives back c.
C4_RoundTrip ==
    \A c \in ColorInts :
        (cpc = "done" /\ InRange(c) /\ Denotes(color_val, c)) =>
            /\ IsStr(hex) /\ Len(hex.s) = 7 /\ hex.s[1] = "#"
            /\ \A n \in 2..7 : IsHexDigit(hex.s[n])
            /\ HexValue(Tail(hex.s), 0) = c

C4_Witness ==
    /\ cpc = "done"
    /\ color_val = Str(<<"6", "5", "5", "3", "6">>)
    /\ hex = Str(<<"#", "0", "1", "0", "0", "0", "0">>)

-----------------------------------------------------------------------------
(* C5 *)

ParsesAsInteger(v) ==
    \/ v.k \in {"num", "bool"}
    \/ (IsStr(v) /\ IntParses(v.s))

HashString(v) == IsStr(v) /\ v.s # <<>> /\ Head(v.s) = "#"

\* C5: for every colour value that is neither a '#'-prefixed string nor
\* parseable as an integer, int_color_to_hex returns '#000000' and does not
\* raise.
C5_DefaultsToBlack ==
    (cpc = "done" /\ ~HashString(color_val) /\ ~ParsesAsInteger(color_val)) =>
        hex = Black

-----------------------------------------------------------------------------
(* C6 *)

FilledKinds == {Lit("PATH"), Lit("RECT"), Lit("TEXT")}

TranslucentFill(d) ==
    /\ IsDict(d.fill) /\ Truthy(Get(d.fill.visible, Bool(FALSE)))
    /\ LessThanOne(Get(d.fill.alpha, Whole(1)))

\* C6: an element emitted for a path, rectangle or text Display whose fill is
\* visible with opacity below 1 carries the bare resolved colour as its fill
\* and the opacity as a separate fill-opacity attribute.
C6_FillOpacityReported ==
    (spc = "done" /\ shape.type \in FilledKinds /\ el.k = "el" /\ TranslucentFill(shape)) =>
        /\ HasAttr(el, "fill", int_color_to_hex(Get(shape.fill.color, Whole(0))))
        /\ HasAttr(el, "fill-opacity", shape.fill.alpha)

-----------------------------------------------------------------------------
(* C7 *)

Field(v, default) == IF v = Absent THEN default ELSE v

\* C7: the transform of every emitted element is translate(x, y), then
\* rotate(angle * 180 / pi) exactly when angle is not 0, then scale(sx, sy)
\* exactly when (sx, sy) is not (1, 1), in that order and with nothing else;
\* missing x, y, angle and scale count as 0, 0, 0 and (1, 1); and a Display
\* whose fields are well typed always gets its element.
C7_TransformOrder ==
    spc = "done" =>
        /\ (WellFormed(shape) => el # Raise)
        /\ el.k = "el" =>
            LET t == el.transform.terms
                angle == Field(shape.angle, Whole(0))
                sx == Field(Field(shape.scale, Point(Absent, Absent)).x, Whole(1))
                sy == Field(Field(shape.scale, Point(Absent, Absent)).y, Whole(1))
                rotates == angle # Whole(0) /\ angle # Rad(0)
                scales == sx # Whole(1) \/ sy # Whole(1)
            IN  /\ Len(t) = 1 + (IF rotates THEN 1 ELSE 0) + (IF scales THEN 1 ELSE 0)
                /\ t[1] = [op |-> "translate", a |-> Field(shape.x, Whole(0)),
                           b |-> Field(shape.y, Whole(0))]
                /\ rotates => t[2] = [op |-> "rotate", a |-> Num((8 * angle.q * 180) \div 4)]
                /\ scales => t[Len(t)] = [op |-> "scale", a |-> sx, b |-> sy]

C7_Witness ==
    /\ spc = "done" /\ el.k = "el"
    /\ shape.angle = Rad(2) /\ shape.x = Whole(5)
    /\ shape.scale = Point(Whole(2), Whole(1))
    /\ el.transform.terms =
          <<[op |-> "translate", a |-> Whole(5), b |-> Whole(-3)],
            [op |-> "rotate", a |-> Whole(90)],
            [op |-> "scale", a |-> Whole(2), b |-> Whole(1)]>>

-----------------------------------------------------------------------------
(* C8 *)

StrokeShown(d) == IsDict(d.stroke) /\ Truthy(Get(d.stroke.visible, Bool(FALSE)))

\* C8: a LINE Display always yields a line element with a stroke: '#000000'
\* of width 1 when its stroke is absent or not visible, its own resolved
\* colour and its own width (1 when missing) when its stroke is visible.
C8_LineHasStroke ==
    (spc = "done" /\ shape.type = Lit("LINE")) =>
        /\ (WellFormed(shape) => el.k = "el")
        /\ el.k = "el" =>
            /\ el.tag = "line"
            /\ IF StrokeShown(shape)
               THEN /\ HasAttr(el, "stroke", int_color_to_hex(Field(shape.stroke.color, Whole(0))))
                    /\ HasAttr(el, "stroke-width", Field(shape.stroke.width, Whole(1)))
               ELSE /\ HasAttr(el, "stroke", Str(<<"#", "0", "0", "0", "0", "0", "0">>))
                    /\ HasAttr(el, "stroke-width", Whole(1))

C8_Witness ==
    /\ spc = "done" /\ shape.type = Lit("LINE") /\ el.k = "el"
    /\ IsDict(shape.stroke) /\ shape.stroke.visible = Bool(FALSE)
    /\ shape.stroke.color = Orange
    /\ HasAttr(el, "stroke", Black) /\ HasAttr(el, "stroke-width", Whole(1))

-----------------------------------------------------------------------------
(* Properties of the canvas conversion *)

Maps(d) == IsVisible(d) /\ RenderDisplay(d).k = "el"
Producing == {n \in 1..Len(canvas0) : Maps(canvas0[n])}
Shown == {n \in 1..Len(canvas0) : IsVisible(canvas0[n])}
Returned == pc \in {"returned", "raised", "done"}

\* C1: malformed data in one Display never aborts the canvas:
\* convert_canvas_to_svg does not raise, and every visible Display that maps
\* to a non-empty element is in the document it returns.
C1_NeverAborts ==
    /\ result # Raise
    /\ (Returned /\ Producing # {}) =>
          /\ result.k = "svg"
          /\ \A n \in Producing :
                \E m \in 1..Len(result.elements) :
                    result.elements[m] = RenderDisplay(canvas0[n])

\* C3: convert_canvas_to_svg yields a document exactly when some visible
\* Display maps to a non-empty element, and the document holds one element
\* for each such Display and nothing else.
C3_DocumentIffElement ==
    Returned =>
        /\ result.k = "svg" <=> Producing # {}
        /\ result.k = "svg" =>
              /\ Len(result.elements) = Cardinality(Producing)
              /\ \A m \in 1..Len(result.elements) :
                    \E n \in Producing : result.elements[m] = RenderDisplay(canvas0[n])

ZOf(d) == IF d.zOrder.k = "num" THEN d.zOrder.e ELSE 0

Rank(n) ==
    1 + Cardinality({m \in Producing :
            \/ ZOf(canvas0[m]) < ZOf(canvas0[n])
            \/ (ZOf(canvas0[m]) = ZOf(canvas0[n]) /\ m < n)})

\* C2: the elements of a document are those of the visible Displays taken in
\* ascending zOrder (0 when missing), Displays of equal zOrder in the order
\* of the canvas; that is the order of filtering first and sorting after.
C2_StableZOrder ==
    result.k = "svg" =>
        /\ Len(result.elements) = Cardinality(Producing)
        /\ \A n \in Producing : result.elements[Rank(n)] = RenderDisplay(canvas0[n])

C2_Witness ==
    /\ result.k = "svg" /\ Len(result.elements) = 3
    /\ \E n \in Producing : Rank(n) < n
    /\ \E m, n \in Producing :
          m < n /\ ZOf(canvas0[m]) = ZOf(canvas0[n]) /\ canvas0[m] # canvas0[n]

MinOf(S) == CHOOSE m \in S : \A o \in S : m <= o
MaxOf(S) == CHOOSE m \in S : \A o \in S : m >= o

Centre(v) == AsEighths(Field(v, Whole(0)))
Reach(size, factor) ==
    (AsEighths(Field(size, Whole(0))) * Abs(AsEighths(Field(factor, Whole(1))))) \div 16 + 8
ReachX(d) == Reach(d.width, Field(d.scale, Point(Absent, Absent)).x)
ReachY(d) == Reach(d.height, Field(d.scale, Point(Absent, Absent)).y)

\* C9: the viewport of a document is the least box around
\* x -+ (width * |sx| / 2 + 1), y -+ (height * |sy| / 2 + 1) of the visible
\* Displays, grown by 2 on every side (eighths: 16).  Invisible Displays do
\* not count, and visible ones count whether or not they give an element.
C9_Viewport ==
    result.k = "svg" =>
        LET lo_x == result.viewBox[1].e
            lo_y == result.viewBox[2].e
            hi_x == lo_x + result.viewBox[3].e
            hi_y == lo_y + result.viewBox[4].e
        IN  /\ lo_x = MinOf({Centre(canvas0[n].x) - ReachX(canvas0[n]) : n \in Shown}) - 16
            /\ lo_y = MinOf({Centre(canvas0[n].y) - ReachY(canvas0[n]) : n \in Shown}) - 16
            /\ hi_x = MaxOf({Centre(canvas0[n].x) + ReachX(canvas0[n]) : n \in Shown}) + 16
            /\ hi_y = MaxOf({Centre(canvas0[n].y) + ReachY(canvas0[n]) : n \in Shown}) + 16
            /\ \A n \in Shown :
                  /\ lo_x < Centre(canvas0[n].x) - ReachX(canvas0[n])
                  /\ hi_x > Centre(canvas0[n].x) + ReachX(canvas0[n])
                  /\ lo_y < Centre(canvas0[n].y) - ReachY(canvas0[n])
                  /\ hi_y > Centre(canvas0[n].y) + ReachY(canvas0[n])

C9_Witness ==
    /\ result.k = "svg"
    /\ \E n \in 1..Len(canvas0) : ~IsVisible(canvas0[n]) /\ canvas0[n].x = Whole(100)
    /\ \E n \in Shown \ Producing :
          result.viewBox[1].e + result.viewBox[3].e
              = Centre(canvas0[n].x) + ReachX(canvas0[n]) + 16
    /\ \E n \in Shown : Field(canvas0[n].scale, NoPoint).x = Whole(-2)

RECURSIVE OwnElements(_, _)
OwnElements(ds, n) ==
    IF n = 0 THEN <<>>
    ELSE OwnElements(ds, n - 1)
         \o (IF Maps(ds[n]) THEN <<RenderDisplay(ds[n])>> ELSE <<>>)

====
